---- MODULE Spec2Model ----
(***************************************************************************)
(* zephSynth: the WebSynth component (src/src/App.js) and its two          *)
(* CustomKnob children, as a state machine.                                *)
(*                                                                         *)
(* One step of the machine is one DOM event fully handled: the handler     *)
(* runs with the closures of the last render (so it reads the state of     *)
(* that render, not the state it is dispatching), the dispatched reducer   *)
(* actions are applied in order as one batch, the component re-renders,    *)
(* the callbacks whose dependency lists changed are re-created and the     *)
(* effects whose dependency lists changed run their cleanup.               *)
(*                                                                         *)
(* Units: frequencies are held in hundredths of a hertz (440 Hz = 44000),  *)
(* gains in hundredths (0.5 = 50), the fade time constant in milliseconds  *)
(* (0.015 s = 15), angles in degrees.  Pointer angles are drawn from       *)
(* multiples of 3 degrees, for which the knob arithmetic of the machine is *)
(* exact.                                                                  *)
(*                                                                         *)
(* The knob functions (angle difference, angleToValue, valueToAngle) are   *)
(* also applied on their own, one call at a time over sampled arguments,   *)
(* in the specification KnobSpec; there valueToAngle and its round trip    *)
(* through angleToValue are computed in IEEE 754 double arithmetic, as     *)
(* JavaScript computes them.                                               *)
(***************************************************************************)
EXTENDS Integers, Sequences, FiniteSets, TLC

VARIABLES
    state,          \* the reducer state of WebSynth (useReducer)
    graphs,         \* the audio host: one record per context created, with its nodes
    setupAudioCtx,  \* state.audioContext as captured by the current setupAudio closure
    knobs,          \* the refs of the two CustomKnob instances
    mounted,        \* whether the component is still mounted
    calls,          \* the audio host calls made while handling the last event, in order
    drags,          \* the number of knob drags begun so far
    probe           \* the knob arithmetic applied on its own: a call and its result

vars == <<state, graphs, setupAudioCtx, knobs, mounted, calls, drags, probe>>

----------------------------------------------------------------------------
(* Bounds of the model *)

(* The number of knob drags (pointer-downs on a knob) the environment makes; *)
(* every other event may happen any number of times, in any order.          *)
MaxDrags == 1

----------------------------------------------------------------------------
(* Program constants *)

Null == 0
NoError == "none"
SetupError == "Failed to setup audio"
PlaybackError == "Error in audio playback"

InitialFrequency == 44000
InitialFilterFrequency == 100000
FadeTarget == 50
TimeConstant == 15
SweepStart == -135
SweepEnd == 135
SweepDegrees == 270

KeyPitches ==
    <<26163, 27718, 29366, 31113, 32963, 34923,
      36999, 39200, 41530, 44000, 46616, 49388>>

WaveformOptions == <<"sine", "square", "sawtooth", "triangle">>

KnobIds == {"FREQUENCY", "FILTER"}
KnobMin(k) == 2000
KnobMax(k) == IF k = "FREQUENCY" THEN 200000 ELSE 2000000

(* The inputs the environment draws from: the lowest key and the key whose  *)
(* pitch is the initial frequency; two of the four waveforms; and two       *)
(* pointer angles (atan2 results, in degrees: the pointer level with the    *)
(* knob's centre, on its right and on its left) whose difference is half a  *)
(* turn either way, the boundary of the folding of lines 83-84: a drag      *)
(* moves a knob by two thirds of its range, so that one drag reaches the    *)
(* lower end of either knob from its initial value and two reach the upper  *)
(* end.                                                                     *)
Keys == {KeyPitches[1], KeyPitches[10]}
Waveforms == {WaveformOptions[1], WaveformOptions[2]}
PointerAngles == {0, 180}

----------------------------------------------------------------------------
(* The reducer *)

initialState ==
    [audioContext |-> Null, oscillator |-> Null, gainNode |-> Null,
     filterNode |-> Null, isPlaying |-> FALSE,
     frequency |-> InitialFrequency, filterFrequency |-> InitialFilterFrequency,
     waveform |-> "sine", error |-> NoError]

reducer(s, action) ==
    CASE action.type = "SET_AUDIO_CONTEXT" -> [s EXCEPT !.audioContext = action.payload]
      [] action.type = "SET_OSCILLATOR" -> [s EXCEPT !.oscillator = action.payload]
      [] action.type = "SET_GAIN_NODE" -> [s EXCEPT !.gainNode = action.payload]
      [] action.type = "SET_FILTER_NODE" -> [s EXCEPT !.filterNode = action.payload]
      [] action.type = "SET_PLAYING" -> [s EXCEPT !.isPlaying = action.payload]
      [] action.type = "SET_FREQUENCY" -> [s EXCEPT !.frequency = action.payload]
      [] action.type = "SET_FILTER_FREQUENCY" -> [s EXCEPT !.filterFrequency = action.payload]
      [] action.type = "SET_WAVEFORM" -> [s EXCEPT !.waveform = action.payload]
      [] action.type = "SET_ERROR" -> [s EXCEPT !.error = action.payload]
      [] OTHER -> s

(* The batch of actions dispatched by one handler, applied in order *)
RECURSIVE Reduce(_, _)
Reduce(s, acts) ==
    IF acts = <<>> THEN s ELSE Reduce(reducer(s, Head(acts)), Tail(acts))

----------------------------------------------------------------------------
(* The audio host.  The n-th successful `new AudioContext()` yields context *)
(* n, and the nodes made from context n are oscillator n, gain n, filter n: *)
(* graphs[n] holds what the host knows about them.  A reference held in     *)
(* the reducer state is such an n, or Null.                                 *)

NoFade == -1

Call(op, id, val, tc) == [op |-> op, id |-> id, val |-> val, tc |-> tc]

(* What handling one event has done so far: the reducer actions dispatched, *)
(* the host objects as the calls have left them, and the calls themselves.  *)
Run(acts, gs, cl) == [acts |-> acts, graphs |-> gs, calls |-> cl]

Dispatch(R, type, payload) ==
    [R EXCEPT !.acts = Append(@, [type |-> type, payload |-> payload])]

(* The graph as lines 166-187 leave it. `cs` is the state the closure reads. *)
NewGraph(cs, ctxState) ==
    [ctxState |-> ctxState, closeCalls |-> 0,
     oscType |-> cs.waveform, oscFrequency |-> cs.frequency,
     oscStarts |-> 1, oscStops |-> 0, oscDisconnects |-> 0,
     gainSets |-> <<0>>, gainFadeTarget |-> NoFade, gainFadeTC |-> 0,
     gainDisconnects |-> 0,
     filterType |-> "lowpass", filterFrequency |-> cs.filterFrequency,
     filterDisconnects |-> 0,
     chain |-> <<"osc", "filter", "gain", "destination">>]

NewGraphCalls(id, cs) ==
    << Call("new AudioContext", id, 0, 0),
       Call("createOscillator", id, 0, 0),
       Call("createGain", id, 0, 0),
       Call("createBiquadFilter", id, 0, 0),
       Call("osc.type=", id, 0, 0),
       Call("osc.frequency.setValueAtTime", id, cs.frequency, 0),
       Call("gain.gain.setValueAtTime", id, 0, 0),
       Call("filter.type=", id, 0, 0),
       Call("filter.frequency.setValueAtTime", id, cs.filterFrequency, 0),
       Call("osc.connect", id, 0, 0),
       Call("filter.connect", id, 0, 0),
       Call("gain.connect", id, 0, 0),
       Call("osc.start", id, 0, 0) >>

(* A faulty setupAudio, against which C4 is tested: the catch block records *)
(* nothing.                                                                 *)
setupAudio_swallowsError(cs, R, ok, ctxState) ==
    IF cs.audioContext # Null \/ ~ok THEN R
    ELSE LET id == Len(R.graphs) + 1
             R1 == Dispatch(R, "SET_AUDIO_CONTEXT", id)
             R2 == [R1 EXCEPT !.graphs = Append(@, NewGraph(cs, ctxState)),
                              !.calls = @ \o NewGraphCalls(id, cs)]
             R3 == Dispatch(R2, "SET_OSCILLATOR", id)
             R4 == Dispatch(R3, "SET_GAIN_NODE", id)
         IN  Dispatch(R4, "SET_FILTER_NODE", id)

(* A faulty setupAudio, against which C9 is tested: the filter node is     *)
(* never recorded in the state.                                             *)
setupAudio_forgetsFilter(cs, R, ok, ctxState) ==
    IF cs.audioContext # Null THEN R
    ELSE IF ~ok THEN Dispatch(R, "SET_ERROR", SetupError)
    ELSE LET id == Len(R.graphs) + 1
             R1 == Dispatch(R, "SET_AUDIO_CONTEXT", id)
             R2 == [R1 EXCEPT !.graphs = Append(@, NewGraph(cs, ctxState)),
                              !.calls = @ \o NewGraphCalls(id, cs)]
             R3 == Dispatch(R2, "SET_OSCILLATOR", id)
         IN  Dispatch(R3, "SET_GAIN_NODE", id)

(* setupAudio, lines 162-191. `cs` is the state its closure captured, `ok`  *)
(* whether the host supplies a context while this event is handled (the     *)
(* constructor throws otherwise), `ctxState` the state the host gives a new *)
(* context (running, or suspended by an autoplay policy).                   *)
setupAudio(cs, R, ok, ctxState) ==
    IF cs.audioContext # Null THEN R
    ELSE IF ~ok THEN Dispatch(R, "SET_ERROR", SetupError)
    ELSE LET id == Len(R.graphs) + 1
             R1 == Dispatch(R, "SET_AUDIO_CONTEXT", id)
             R2 == [R1 EXCEPT !.graphs = Append(@, NewGraph(cs, ctxState)),
                              !.calls = @ \o NewGraphCalls(id, cs)]
             R3 == Dispatch(R2, "SET_OSCILLATOR", id)
             R4 == Dispatch(R3, "SET_GAIN_NODE", id)
         IN  Dispatch(R4, "SET_FILTER_NODE", id)

(* A faulty fadeTo, against which C6 is tested: the gain is stepped with an *)
(* immediate set.                                                           *)
fadeTo_step(R, id, target) ==
    [R EXCEPT !.graphs[id].gainSets = Append(@, target),
              !.calls = Append(@, Call("gain.gain.setValueAtTime", id, target, 0))]

(* state.gainNode.gain.setTargetAtTime(target, currentTime, 0.015) *)
fadeTo(R, id, target) ==
    [R EXCEPT !.graphs[id].gainFadeTarget = target,
              !.graphs[id].gainFadeTC = TimeConstant,
              !.calls = Append(@, Call("gain.gain.setTargetAtTime", id, target, TimeConstant))]

(* lines 200-202 *)
resumeIfSuspended(R, id) ==
    IF R.graphs[id].ctxState = "suspended"
    THEN [R EXCEPT !.graphs[id].ctxState = "running",
                   !.calls = Append(@, Call("context.resume", id, 0, 0))]
    ELSE R

(* A faulty handlePlayStop, against which C8 is tested: the two fade        *)
(* targets are exchanged.                                                   *)
handlePlayStop_swappedTargets(cs, setupCs, R, ok, ctxState) ==
    IF cs.audioContext = Null THEN setupAudio(setupCs, R, ok, ctxState)
    ELSE LET R1 == resumeIfSuspended(R, cs.audioContext)
         IN  IF cs.gainNode = Null
             THEN Dispatch(R1, "SET_ERROR", PlaybackError)
             ELSE IF cs.isPlaying
             THEN Dispatch(fadeTo(R1, cs.gainNode, FadeTarget), "SET_PLAYING", FALSE)
             ELSE Dispatch(fadeTo(R1, cs.gainNode, 0), "SET_PLAYING", TRUE)

(* A faulty handlePlayStop, against which C19 is tested: a click made with  *)
(* no graph also marks the synthesizer as playing.                          *)
handlePlayStop_playsAtOnce(cs, setupCs, R, ok, ctxState) ==
    IF cs.audioContext = Null
    THEN Dispatch(setupAudio(setupCs, R, ok, ctxState), "SET_PLAYING", TRUE)
    ELSE LET R1 == resumeIfSuspended(R, cs.audioContext)
         IN  IF cs.gainNode = Null
             THEN Dispatch(R1, "SET_ERROR", PlaybackError)
             ELSE IF cs.isPlaying
             THEN Dispatch(fadeTo(R1, cs.gainNode, 0), "SET_PLAYING", FALSE)
             ELSE Dispatch(fadeTo(R1, cs.gainNode, FadeTarget), "SET_PLAYING", TRUE)

(* A faulty handlePlayStop, against which C20 is tested: a click made with  *)
(* no graph fades the gain of the graph it has just created.                *)
handlePlayStop_fadesNewGraph(cs, setupCs, R, ok, ctxState) ==
    IF cs.audioContext = Null
    THEN LET R1 == setupAudio(setupCs, R, ok, ctxState)
         IN  IF Len(R1.graphs) > Len(R.graphs)
             THEN fadeTo(R1, Len(R1.graphs), FadeTarget)
             ELSE R1
    ELSE LET R1 == resumeIfSuspended(R, cs.audioContext)
         IN  IF cs.gainNode = Null
             THEN Dispatch(R1, "SET_ERROR", PlaybackError)
             ELSE IF cs.isPlaying
             THEN Dispatch(fadeTo(R1, cs.gainNode, 0), "SET_PLAYING", FALSE)
             ELSE Dispatch(fadeTo(R1, cs.gainNode, FadeTarget), "SET_PLAYING", TRUE)

(* handlePlayStop, lines 193-214. `cs` is the state of the render its       *)
(* closure belongs to, `setupCs` the state the setupAudio closure captured. *)
handlePlayStop(cs, setupCs, R, ok, ctxState) ==
    IF cs.audioContext = Null THEN setupAudio(setupCs, R, ok, ctxState)
    ELSE LET R1 == resumeIfSuspended(R, cs.audioContext)
         IN  IF cs.gainNode = Null
             THEN Dispatch(R1, "SET_ERROR", PlaybackError)
             ELSE IF cs.isPlaying
             THEN Dispatch(fadeTo(R1, cs.gainNode, 0), "SET_PLAYING", FALSE)
             ELSE Dispatch(fadeTo(R1, cs.gainNode, FadeTarget), "SET_PLAYING", TRUE)

(* handleFrequencyChange, lines 216-221 *)
handleFrequencyChange(cs, R, newFrequency) ==
    LET R1 == Dispatch(R, "SET_FREQUENCY", newFrequency)
    IN  IF cs.oscillator # Null /\ cs.audioContext # Null
        THEN [R1 EXCEPT !.graphs[cs.oscillator].oscFrequency = newFrequency,
                        !.calls = Append(@, Call("osc.frequency.setValueAtTime",
                                                 cs.oscillator, newFrequency, 0))]
        ELSE R1

(* handleFilterChange, lines 223-228 *)
handleFilterChange(cs, R, newFilterFrequency) ==
    LET R1 == Dispatch(R, "SET_FILTER_FREQUENCY", newFilterFrequency)
    IN  IF cs.filterNode # Null /\ cs.audioContext # Null
        THEN [R1 EXCEPT !.graphs[cs.filterNode].filterFrequency = newFilterFrequency,
                        !.calls = Append(@, Call("filter.frequency.setValueAtTime",
                                                 cs.filterNode, newFilterFrequency, 0))]
        ELSE R1

(* handleWaveformChange, lines 230-236 *)
handleWaveformChange(cs, R, newWaveform) ==
    LET R1 == Dispatch(R, "SET_WAVEFORM", newWaveform)
    IN  IF cs.oscillator # Null
        THEN [R1 EXCEPT !.graphs[cs.oscillator].oscType = newWaveform,
                        !.calls = Append(@, Call("osc.type=", cs.oscillator, 0, 0))]
        ELSE R1

(* A faulty teardown, against which C11 is tested: close() is called on     *)
(* the context reference without the test of line 268.                      *)
teardown_unguardedClose(cs, R) ==
    LET R1 == IF cs.oscillator # Null
              THEN [R EXCEPT !.graphs[cs.oscillator].oscStops = @ + 1,
                             !.graphs[cs.oscillator].oscDisconnects = @ + 1,
                             !.calls = @ \o << Call("osc.stop", cs.oscillator, 0, 0),
                                               Call("osc.disconnect", cs.oscillator, 0, 0) >>]
              ELSE R
        R2 == IF cs.audioContext # Null
              THEN [R1 EXCEPT !.graphs[cs.audioContext].ctxState = "closed",
                              !.graphs[cs.audioContext].closeCalls = @ + 1]
              ELSE R1
    IN  [R2 EXCEPT !.calls = Append(@, Call("context.close", cs.audioContext, 0, 0))]

(* The cleanup of the teardown effect, lines 264-272, run with the state    *)
(* `cs` of the render that registered it.                                   *)
teardown(cs, R) ==
    LET R1 == IF cs.oscillator # Null
              THEN [R EXCEPT !.graphs[cs.oscillator].oscStops = @ + 1,
                             !.graphs[cs.oscillator].oscDisconnects = @ + 1,
                             !.calls = @ \o << Call("osc.stop", cs.oscillator, 0, 0),
                                               Call("osc.disconnect", cs.oscillator, 0, 0) >>]
              ELSE R
        R2 == IF cs.gainNode # Null
              THEN [R1 EXCEPT !.graphs[cs.gainNode].gainDisconnects = @ + 1,
                              !.calls = Append(@, Call("gain.disconnect", cs.gainNode, 0, 0))]
              ELSE R1
        R3 == IF cs.filterNode # Null
              THEN [R2 EXCEPT !.graphs[cs.filterNode].filterDisconnects = @ + 1,
                              !.calls = Append(@, Call("filter.disconnect", cs.filterNode, 0, 0))]
              ELSE R2
    IN  IF cs.audioContext # Null
        THEN [R3 EXCEPT !.graphs[cs.audioContext].ctxState = "closed",
                        !.graphs[cs.audioContext].closeCalls = @ + 1,
                        !.calls = Append(@, Call("context.close", cs.audioContext, 0, 0))]
        ELSE R3

----------------------------------------------------------------------------
(* CustomKnob, lines 40-156.  Angles are held in units of 1/AngleUnit of a  *)
(* degree, the coarsest unit in which valueToAngle of every value of both   *)
(* knobs is a whole number; the arithmetic of lines 47 and 52 is then exact *)
(* (no rounding) for pointer angles that are multiples of 3 degrees.        *)

AngleUnit == 81400

Deg(d) == d * AngleUnit

(* 270 / (max - min), in angle units per hundredth of a hertz *)
UnitsPerValue(k) == (SweepDegrees * AngleUnit) \div (KnobMax(k) - KnobMin(k))

(* line 47: ((val - min) / (max - min)) * 270 - 135 *)
valueToAngle(k, val) == (val - KnobMin(k)) * UnitsPerValue(k) - Deg(SweepEnd)

Max(a, b) == IF a > b THEN a ELSE b
Min(a, b) == IF a < b THEN a ELSE b

(* A faulty angleToValue, against which C7 is tested: the angle is not      *)
(* clamped to the sweep.                                                    *)
angleToValue_unclamped(k, angle) ==
    KnobMin(k) + (angle + Deg(SweepEnd)) \div UnitsPerValue(k)

(* A faulty angleToValue, against which C13 is tested: the angle is clamped *)
(* at the lower end of the sweep only.                                      *)
angleToValue_noUpperClamp(k, angle) ==
    LET clampedAngle == Max(Deg(SweepStart), angle)
    IN  KnobMin(k) + (clampedAngle + Deg(SweepEnd)) \div UnitsPerValue(k)

(* lines 51-52 *)
angleToValue(k, angle) ==
    LET clampedAngle == Max(Deg(SweepStart), Min(Deg(SweepEnd), angle))
    IN  KnobMin(k) + (clampedAngle + Deg(SweepEnd)) \div UnitsPerValue(k)

(* lines 82-84: the difference of two atan2 results, in degrees, folded once *)
angleDiff(currentAngle, startAngle) ==
    LET d0 == Deg(currentAngle - startAngle)
        d1 == IF d0 > Deg(180) THEN d0 - Deg(360) ELSE d0
    IN  IF d1 < Deg(-180) THEN d1 + Deg(360) ELSE d1

(* The value prop each knob is rendered with, lines 292 and 301 *)
KnobValue(s, k) == IF k = "FREQUENCY" THEN s.frequency ELSE s.filterFrequency

(* The onChange prop each knob is rendered with, lines 295 and 304 *)
onChange(k, cs, R, newValue) ==
    IF k = "FREQUENCY" THEN handleFrequencyChange(cs, R, newValue)
                       ELSE handleFilterChange(cs, R, newValue)

(* rotateKnob, lines 55-59: the rotation of the indicator, in angle units *)
rotateKnob(kn, angle) == [kn EXCEPT !.rotation = angle]

(* A knob after its first render: the refs have their useRef values, lines  *)
(* 42-44, the effect of lines 97-113 has added the move and up listeners    *)
(* and the effect of lines 115-117 has rotated the indicator.               *)
initialKnob(k) ==
    [isDragging |-> FALSE, startAngle |-> 0, startValue |-> 0, listening |-> TRUE,
     rotation |-> valueToAngle(k, KnobValue(initialState, k))]

(* The bounding boxes getBoundingClientRect may return for the indicator:   *)
(* one with an extent, or an empty one (an indicator that is not laid out,  *)
(* as under a collapsed or hidden ancestor).  The indicator is rendered     *)
(* with the svg that receives the event, so knobRef.current is never null   *)
(* when handleMouseDown runs.                                               *)
Geometries == {"measured", "zeroSize"}

(* handleMouseDown, lines 61-71. `rect` is the bounding box of line 63, of  *)
(* which lines 64-67 take the centre and nothing else; `angle` is atan2 of  *)
(* the pointer about that centre, in degrees (the code keeps radians and    *)
(* converts the difference at line 82).                                     *)
handleMouseDown(kn, value, rect, angle) ==
    [kn EXCEPT !.startAngle = angle, !.startValue = value, !.isDragging = TRUE]

(* handleMouseMove, lines 73-91: what the event has done so far, and the    *)
(* knob, after the handler.                                                 *)
handleMouseMove(k, kn, cs, R, angle) ==
    IF ~kn.isDragging THEN [run |-> R, knob |-> kn]
    ELSE LET newAngle == valueToAngle(k, kn.startValue) + angleDiff(angle, kn.startAngle)
             newValue == angleToValue(k, newAngle)
         IN  [run |-> onChange(k, cs, R, newValue), knob |-> rotateKnob(kn, newAngle)]

(* handleMouseUp, lines 93-95 *)
handleMouseUp(kn) == [kn EXCEPT !.isDragging = FALSE]

----------------------------------------------------------------------------
(* JavaScript numbers.  The knob arithmetic of lines 47 and 52 is done in   *)
(* IEEE 754 binary64 with round-to-nearest-even; below it is done the same  *)
(* way, on natural numbers of any size held as sequences of limbs (least    *)
(* significant first, no leading zero limb, zero the empty sequence).       *)

LimbBase == 32768

RECURSIVE BTrim(_)
BTrim(a) ==
    IF a = <<>> \/ a[Len(a)] # 0 THEN a ELSE BTrim(SubSeq(a, 1, Len(a) - 1))

RECURSIVE BFromInt(_)
BFromInt(n) ==
    IF n = 0 THEN <<>> ELSE <<n % LimbBase>> \o BFromInt(n \div LimbBase)

Limb(a, i) == IF i <= Len(a) THEN a[i] ELSE 0

RECURSIVE BAddFrom(_, _, _, _)
BAddFrom(a, b, i, carry) ==
    IF i > Len(a) /\ i > Len(b)
    THEN IF carry = 0 THEN <<>> ELSE <<carry>>
    ELSE LET t == Limb(a, i) + Limb(b, i) + carry
         IN  <<t % LimbBase>> \o BAddFrom(a, b, i + 1, t \div LimbBase)

BAdd(a, b) == BAddFrom(a, b, 1, 0)

(* a - b, for a >= b *)
RECURSIVE BSubFrom(_, _, _, _)
BSubFrom(a, b, i, borrow) ==
    IF i > Len(a) THEN <<>>
    ELSE LET t == Limb(a, i) - Limb(b, i) - borrow
         IN  <<IF t < 0 THEN t + LimbBase ELSE t>>
                 \o BSubFrom(a, b, i + 1, IF t < 0 THEN 1 ELSE 0)

BSub(a, b) == BTrim(BSubFrom(a, b, 1, 0))

(* -1, 0 or 1 as a is below, equal to or above b *)
RECURSIVE BCmpFrom(_, _, _)
BCmpFrom(a, b, i) ==
    IF i = 0 THEN 0
    ELSE IF a[i] < b[i] THEN -1
    ELSE IF a[i] > b[i] THEN 1
    ELSE BCmpFrom(a, b, i - 1)

BCmp(a, b) ==
    IF Len(a) < Len(b) THEN -1
    ELSE IF Len(a) > Len(b) THEN 1
    ELSE BCmpFrom(a, b, Len(a))

RECURSIVE BMulLimbFrom(_, _, _, _)
BMulLimbFrom(a, k, i, carry) ==
    IF i > Len(a)
    THEN IF carry = 0 THEN <<>> ELSE <<carry>>
    ELSE LET t == a[i] * k + carry
         IN  <<t % LimbBase>> \o BMulLimbFrom(a, k, i + 1, t \div LimbBase)

RECURSIVE BMulFrom(_, _, _)
BMulFrom(a, b, j) ==
    IF j > Len(b) THEN <<>>
    ELSE BAdd(BMulLimbFrom(a, b[j], 1, 0), <<0>> \o BMulFrom(a, b, j + 1))

BMul(a, b) == BTrim(BMulFrom(a, b, 1))

LimbBits == 15

(* a * 2^n *)
BShiftLeft(a, n) ==
    IF a = <<>> THEN a
    ELSE [i \in 1..(n \div LimbBits) |-> 0] \o BMulLimbFrom(a, 2 ^ (n % LimbBits), 1, 0)

(* The number of bits of a non-zero limb, and of a number *)
RECURSIVE LimbLength(_)
LimbLength(x) == IF x = 0 THEN 0 ELSE 1 + LimbLength(x \div 2)

BitLength(a) == IF a = <<>> THEN 0 ELSE LimbBits * (Len(a) - 1) + LimbLength(a[Len(a)])

BOdd(a) == a # <<>> /\ a[1] % 2 = 1

(* A double: sign * m * 2^e, with m of exactly 53 bits, or zero *)
DoubleZero == [sign |-> 0, m |-> <<>>, e |-> 0]

(* p * 2^e / q brought to q <= p < 2q by scaling p or q by a power of two *)
Normalize(p, q, e) ==
    LET d == BitLength(p) - BitLength(q)
        p1 == IF d < 0 THEN BShiftLeft(p, -d) ELSE p
        q1 == IF d > 0 THEN BShiftLeft(q, d) ELSE q
    IN  IF BCmp(p1, q1) < 0
        THEN [p |-> BAdd(p1, p1), q |-> q1, e |-> e + d - 1]
        ELSE [p |-> p1, q |-> q1, e |-> e + d]

(* The next n bits of the quotient r / q, for r < q: the bits as a number  *)
(* and the remainder left                                                   *)
RECURSIVE QuotientBits(_, _, _)
QuotientBits(r, q, n) ==
    IF n = 0 THEN [m |-> 0, r |-> r]
    ELSE LET r2 == BAdd(r, r)
             bit == IF BCmp(r2, q) >= 0 THEN 1 ELSE 0
             rest == QuotientBits(IF bit = 1 THEN BSub(r2, q) ELSE r2, q, n - 1)
         IN  [m |-> bit * 2 ^ (n - 1) + rest.m, r |-> rest.r]

(* The quotient so far, with the next n bits *)
NextBits(S, n) ==
    IF S.r = <<>> THEN [S EXCEPT !.m = <<0>> \o @]
    ELSE LET D == QuotientBits(S.r, S.q, n)
         IN  [S EXCEPT !.m = <<D.m>> \o @, !.r = D.r]

LeadingBits(N) ==
    LET D == QuotientBits(BSub(N.p, N.q), N.q, 7)
    IN  [q |-> N.q, e |-> N.e, m |-> <<128 + D.m>>, r |-> D.r]

RoundUp(sign, S) ==
    LET half == BCmp(BAdd(S.r, S.r), S.q)
        m1 == IF half > 0 \/ (half = 0 /\ BOdd(S.m)) THEN BAdd(S.m, <<1>>) ELSE S.m
    IN  IF BCmp(m1, BShiftLeft(<<1>>, 53)) = 0
        THEN [sign |-> sign, m |-> BShiftLeft(<<1>>, 52), e |-> S.e - 51]
        ELSE [sign |-> sign, m |-> m1, e |-> S.e - 52]

RoundToDouble(sign, p, q, e) ==
    RoundUp(sign, NextBits(NextBits(NextBits(LeadingBits(Normalize(p, q, e)), LimbBits),
                                    LimbBits), LimbBits))

DNeg(x) == [x EXCEPT !.sign = -x.sign]

(* x + y *)
DAdd(x, y) ==
    IF x.sign = 0 THEN y
    ELSE IF y.sign = 0 THEN x
    ELSE LET e == Min(x.e, y.e)
             X == BShiftLeft(x.m, x.e - e)
             Y == BShiftLeft(y.m, y.e - e)
             c == BCmp(X, Y)
         IN  IF x.sign = y.sign THEN RoundToDouble(x.sign, BAdd(X, Y), <<1>>, e)
             ELSE IF c = 0 THEN DoubleZero
             ELSE IF c > 0 THEN RoundToDouble(x.sign, BSub(X, Y), <<1>>, e)
             ELSE RoundToDouble(y.sign, BSub(Y, X), <<1>>, e)

(* x - y *)
DSub(x, y) == DAdd(x, DNeg(y))

(* x * y *)
DMul(x, y) ==
    IF x.sign = 0 \/ y.sign = 0 THEN DoubleZero
    ELSE RoundToDouble(x.sign * y.sign, BMul(x.m, y.m), <<1>>, x.e + y.e)

(* x / y, y not zero *)
DDiv(x, y) ==
    IF x.sign = 0 \/ y.sign = 0 THEN DoubleZero
    ELSE RoundToDouble(x.sign * y.sign, x.m, y.m, x.e - y.e)

(* x < y *)
DLess(x, y) == DSub(x, y).sign < 0

DMax(x, y) == IF DLess(x, y) THEN y ELSE x
DMin(x, y) == IF DLess(y, x) THEN y ELSE x

(* The double of an integer literal *)
DInt(n) ==
    IF n = 0 THEN DoubleZero
    ELSE IF n < 0 THEN RoundToDouble(-1, BFromInt(-n), <<1>>, 0)
    ELSE RoundToDouble(1, BFromInt(n), <<1>>, 0)

(* The double of a number given in hundredths, as a decimal literal such as *)
(* 261.63 denotes it.                                                       *)
DHundredths(c) == DDiv(DInt(c), DInt(100))

DAbs(x) == [x EXCEPT !.sign = x.sign * x.sign]

(* x * 2^n *)
DScale(x, n) == [x EXCEPT !.e = IF x.sign = 0 THEN 0 ELSE @ + n]

(* A faulty valueToAngle, against which C14 is tested: the sweep is taken   *)
(* to start at 0 degrees.                                                   *)
valueToAngleDouble_noOffset(val, min, max) ==
    DMul(DDiv(DSub(val, min), DSub(max, min)), DInt(SweepDegrees))

(* line 47, in doubles *)
valueToAngleDouble(val, min, max) ==
    DSub(DMul(DDiv(DSub(val, min), DSub(max, min)), DInt(SweepDegrees)), DInt(SweepEnd))

(* lines 51-52, in doubles *)
angleToValueDouble(angle, min, max) ==
    LET clampedAngle == DMax(DInt(SweepStart), DMin(DInt(SweepEnd), angle))
    IN  DAdd(min, DMul(DDiv(DAdd(clampedAngle, DInt(SweepEnd)), DInt(SweepDegrees)),
                       DSub(max, min)))

----------------------------------------------------------------------------
(* Rendering *)

GraphRefs(s) == <<s.oscillator, s.gainNode, s.filterNode, s.audioContext>>

(* The dependency list of setupAudio, line 191 *)
SetupDeps(s) == <<s.waveform, s.frequency, s.filterFrequency>>

(* The state the setupAudio closure reads: waveform, frequency and          *)
(* filterFrequency are its dependencies and so those of the last render;    *)
(* audioContext is not, and is the one of the render that last re-created   *)
(* the callback.                                                            *)
SetupClosure(s, capturedCtx) == [s EXCEPT !.audioContext = capturedCtx]

(* The batch is applied and the component re-renders: the teardown effect   *)
(* (deps at line 273) runs its cleanup, with the state it was registered    *)
(* with, when one of the four references changed; setupAudio is re-created  *)
(* when one of its dependencies changed; the indicator effect of a knob     *)
(* (lines 115-117) runs when the knob's value changed.                      *)
Commit(handled, kn) ==
    \E R \in {handled} :
    \E s1 \in {Reduce(state, R.acts)} :
    \E R1 \in {IF GraphRefs(s1) # GraphRefs(state) THEN teardown(state, R) ELSE R} :
        /\ state' = s1
        /\ graphs' = R1.graphs
        /\ calls' = R1.calls
        /\ setupAudioCtx' = IF SetupDeps(s1) # SetupDeps(state)
                            THEN s1.audioContext ELSE setupAudioCtx
        /\ knobs' = [k \in KnobIds |->
                        IF KnobValue(s1, k) # KnobValue(state, k)
                        THEN rotateKnob(kn[k], valueToAngle(k, KnobValue(s1, k)))
                        ELSE kn[k]]
        /\ UNCHANGED <<mounted, probe>>

Begin == Run(<<>>, graphs, <<>>)

ContextStates == {"running", "suspended"}

(* What the host may answer while one event is handled: whether it supplies *)
(* a context and in which state.  The answer is read only by an event that  *)
(* asks for a context, which none does once state.audioContext is set, and  *)
(* the state of a context that is refused is never read.                    *)
HostAnswers ==
    IF state.audioContext = Null
    THEN {<<FALSE, "running">>} \cup {<<TRUE, c>> : c \in ContextStates}
    ELSE {<<TRUE, "running">>}

----------------------------------------------------------------------------
(* The events *)

Mounted ==
    /\ state = initialState
    /\ graphs = <<>>
    /\ setupAudioCtx = Null
    /\ knobs = [k \in KnobIds |-> initialKnob(k)]
    /\ mounted = TRUE
    /\ calls = <<>>
    /\ drags = 0

NoProbe == [fn |-> "none"]

Init == Mounted /\ probe = NoProbe

(* onMouseDown / onTouchStart of a key, lines 243-247 and 251-255 *)
KeyDown(freq, ok, ctxState) ==
    /\ mounted
    /\ UNCHANGED drags
    /\ LET setupCs == SetupClosure(state, setupAudioCtx)
           R1 == IF state.audioContext = Null
                 THEN setupAudio(setupCs, Begin, ok, ctxState)
                 ELSE Begin
           R2 == handleFrequencyChange(state, R1, freq)
           R3 == IF ~state.isPlaying
                 THEN handlePlayStop(state, setupCs, R2, ok, ctxState)
                 ELSE R2
       IN  Commit(R3, knobs)

(* onMouseUp / onTouchEnd of a key, lines 248-250 and 256-258 *)
KeyUp(ok, ctxState) ==
    /\ mounted
    /\ UNCHANGED drags
    /\ LET setupCs == SetupClosure(state, setupAudioCtx)
           R1 == IF state.isPlaying
                 THEN handlePlayStop(state, setupCs, Begin, ok, ctxState)
                 ELSE Begin
       IN  Commit(R1, knobs)

(* onClick of the play button, line 314 *)
PlayClick(ok, ctxState) ==
    /\ mounted
    /\ UNCHANGED drags
    /\ LET setupCs == SetupClosure(state, setupAudioCtx)
       IN  Commit(handlePlayStop(state, setupCs, Begin, ok, ctxState), knobs)

(* onChange of the waveform selector, line 324 *)
SelectWaveform(w) ==
    /\ mounted
    /\ UNCHANGED drags
    /\ Commit(handleWaveformChange(state, Begin, w), knobs)

(* onMouseDown of a knob, line 125 *)
KnobMouseDown(k, rect, angle) ==
    /\ mounted
    /\ drags < MaxDrags
    /\ drags' = drags + 1
    /\ Commit(Begin,
              [knobs EXCEPT ![k] = handleMouseDown(@, KnobValue(state, k), rect, angle)])

(* mousemove on the document: the listener of each knob runs, the frequency *)
(* knob's first (it mounted first), each with the pointer's angle about its *)
(* own centre.                                                              *)
MouseMove(angleF, angleC) ==
    /\ mounted
    /\ UNCHANGED drags
    /\ LET idle(k, R) == [run |-> R, knob |-> knobs[k]]
           m1 == IF knobs["FREQUENCY"].listening
                 THEN handleMouseMove("FREQUENCY", knobs["FREQUENCY"], state, Begin, angleF)
                 ELSE idle("FREQUENCY", Begin)
           m2 == IF knobs["FILTER"].listening
                 THEN handleMouseMove("FILTER", knobs["FILTER"], state, m1.run, angleC)
                 ELSE idle("FILTER", m1.run)
       IN  Commit(m2.run, [k \in KnobIds |-> IF k = "FREQUENCY" THEN m1.knob ELSE m2.knob])

(* mouseup on the document *)
MouseUp ==
    /\ mounted
    /\ UNCHANGED drags
    /\ Commit(Begin,
              [k \in KnobIds |-> IF knobs[k].listening THEN handleMouseUp(knobs[k])
                                                       ELSE knobs[k]])

(* The component unmounts: the cleanups of both effects run, lines 109-112  *)
(* and 264-272.                                                             *)
Unmount ==
    /\ mounted
    /\ mounted' = FALSE
    /\ LET R1 == teardown(state, Begin)
       IN  /\ graphs' = R1.graphs
           /\ calls' = R1.calls
    /\ knobs' = [k \in KnobIds |-> [knobs[k] EXCEPT !.listening = FALSE]]
    /\ UNCHANGED <<state, setupAudioCtx, drags, probe>>

(* The pointer angles a mousemove may carry for knob k: the angle is read    *)
(* only by a knob that is being dragged (line 74).                          *)
MoveAngles(k) ==
    IF knobs[k].isDragging THEN PointerAngles ELSE {0}

Next ==
    \/ \E freq \in Keys, h \in HostAnswers : KeyDown(freq, h[1], h[2])
    \/ \E h \in HostAnswers : KeyUp(h[1], h[2])
    \/ \E h \in HostAnswers : PlayClick(h[1], h[2])
    \/ \E w \in Waveforms : SelectWaveform(w)
    \/ \E k \in KnobIds, rect \in Geometries, angle \in PointerAngles :
            KnobMouseDown(k, rect, angle)
    \/ \E angleF \in MoveAngles("FREQUENCY"), angleC \in MoveAngles("FILTER") :
            MouseMove(angleF, angleC)
    \/ MouseUp
    \/ Unmount

Spec == Init /\ [][Next]_vars

----------------------------------------------------------------------------
(* The knob arithmetic on its own: one call of a function of CustomKnob on  *)
(* an argument drawn from a sample of its domain, and the value it returns. *)

(* Math.atan2 results in degrees, within (-180, 180] *)
AtanAngles == {20 * i : i \in -8..9}

AngleDiffCalls ==
    {[fn |-> "angleDiff", currentAngle |-> c, startAngle |-> a, returned |-> FALSE] :
        c \in AtanAngles, a \in AtanAngles}

(* Angles from a full turn below the sweep to a full turn above it, in      *)
(* steps of 3 degrees                                                       *)
ProbeAngles == {Deg(3 * i) : i \in -165..165}

AngleToValueCalls ==
    {[fn |-> "angleToValue", knob |-> k, angle |-> a, returned |-> FALSE] :
        k \in KnobIds, a \in ProbeAngles}

(* Values of a knob's range, in hundredths: twenty equal steps from min to  *)
(* max, the key pitches, the initial values and two values near min.        *)
ProbeValues(k) ==
    {KnobMin(k) + i * ((KnobMax(k) - KnobMin(k)) \div 20) : i \in 0..20}
        \cup {KeyPitches[i] : i \in DOMAIN KeyPitches}
        \cup {InitialFrequency, InitialFilterFrequency, 2042, 2057}

ValueToAngleCalls ==
    UNION {{[fn |-> "valueToAngle", knob |-> k, value |-> v, returned |-> FALSE] :
                v \in {x \in ProbeValues(k) : x <= KnobMax(k)}} : k \in KnobIds}

KnobCalls == AngleDiffCalls \cup AngleToValueCalls \cup ValueToAngleCalls

(* The min and max props of a knob, and a value in hundredths, as doubles *)
MinDouble(k) == DHundredths(KnobMin(k))
MaxDouble(k) == DHundredths(KnobMax(k))

KnobInit == Mounted /\ probe \in KnobCalls

(* lines 82-84 *)
ApplyAngleDiff ==
    /\ probe.fn = "angleDiff" /\ ~probe.returned
    /\ probe' = [fn |-> "angleDiff", currentAngle |-> probe.currentAngle,
                 startAngle |-> probe.startAngle, returned |-> TRUE,
                 result |-> angleDiff(probe.currentAngle, probe.startAngle)]
    /\ UNCHANGED <<state, graphs, setupAudioCtx, knobs, mounted, calls, drags>>

(* lines 50-53 *)
ApplyAngleToValue ==
    /\ probe.fn = "angleToValue" /\ ~probe.returned
    /\ probe' = [fn |-> "angleToValue", knob |-> probe.knob, angle |-> probe.angle,
                 returned |-> TRUE, result |-> angleToValue(probe.knob, probe.angle)]
    /\ UNCHANGED <<state, graphs, setupAudioCtx, knobs, mounted, calls, drags>>

(* lines 46-48, in doubles *)
ApplyValueToAngle ==
    /\ probe.fn = "valueToAngle" /\ ~probe.returned
    /\ probe' = [fn |-> "valueToAngle", knob |-> probe.knob, value |-> probe.value,
                 returned |-> TRUE,
                 result |-> valueToAngleDouble(DHundredths(probe.value),
                                               MinDouble(probe.knob), MaxDouble(probe.knob))]
    /\ UNCHANGED <<state, graphs, setupAudioCtx, knobs, mounted, calls, drags>>

(* lines 50-53, in doubles, on the angle valueToAngle returned *)
ApplyAngleToValueBack ==
    /\ probe.fn = "valueToAngle" /\ probe.returned
    /\ probe' = [fn |-> "roundTrip", knob |-> probe.knob, value |-> probe.value,
                 angle |-> probe.result, returned |-> TRUE,
                 result |-> angleToValueDouble(probe.result,
                                               MinDouble(probe.knob), MaxDouble(probe.knob))]
    /\ UNCHANGED <<state, graphs, setupAudioCtx, knobs, mounted, calls, drags>>

KnobNext ==
    \/ ApplyAngleDiff
    \/ ApplyAngleToValue
    \/ ApplyValueToAngle
    \/ ApplyAngleToValueBack

KnobSpec == KnobInit /\ [][KnobNext]_vars

----------------------------------------------------------------------------
(* Properties *)

GraphIds == 1..Len(graphs)

NoGraph == GraphRefs(state) = <<Null, Null, Null, Null>>

CompleteGraph == \A i \in 1..4 : GraphRefs(state)[i] # Null

(* The fades among the host calls of the last event *)
Fades == {i \in DOMAIN calls : calls[i].op = "gain.gain.setTargetAtTime"}

(* C1: over any sequence of gestures at most one audio context, and one    *)
(* oscillator/filter/gain triple, is ever created: a setupAudio call after  *)
(* the first successful one creates nothing, also when it is reached twice  *)
(* while one key press is handled.                                          *)
C1_AtMostOneGraph == Len(graphs) <= 1

(* C2: a key press made while not playing, when the host can supply a       *)
(* context, ends with isPlaying true and frequency the key's pitch, whether *)
(* or not a graph existed; the key release that follows ends with isPlaying *)
(* false and the frequency unchanged.                                       *)
C2_KeyPressPlaysKeyReleaseStops ==
    [][ /\ \A freq \in Keys, c \in ContextStates :
              (~state.isPlaying /\ KeyDown(freq, TRUE, c))
                  => (state'.isPlaying /\ state'.frequency = freq)
        /\ \A c \in ContextStates :
              KeyUp(TRUE, c)
                  => (~state'.isPlaying /\ state'.frequency = state.frequency)
      ]_vars

(* C3: whenever a graph exists, once an event is handled the oscillator's   *)
(* frequency and type and the filter's cutoff are the canonical frequency,  *)
(* waveform and filterFrequency, also when the value was set before the     *)
(* graph existed or by the key press that creates the graph.                *)
C3_GraphMatchesState ==
    /\ state.oscillator # Null =>
          /\ graphs[state.oscillator].oscFrequency = state.frequency
          /\ graphs[state.oscillator].oscType = state.waveform
    /\ state.filterNode # Null =>
          graphs[state.filterNode].filterFrequency = state.filterFrequency

(* The state a refused graph creation leaves *)
SetupFailed == ~state.isPlaying /\ state.error # NoError /\ NoGraph

(* C4: when the host refuses to create an audio context, a play-button      *)
(* click or key press (made while no graph exists, so that a context is     *)
(* asked for) ends with isPlaying false, the error set and no context or    *)
(* node recorded; frequency, filterFrequency and waveform are what the      *)
(* gesture sets without the failure: unchanged by a click, and the pitch    *)
(* with the other two unchanged by a key press.                             *)
C4_RefusedContext ==
    [][ state.audioContext = Null =>
          /\ PlayClick(FALSE, "running")
                => (SetupFailed' /\ graphs' = graphs /\ SetupDeps(state') = SetupDeps(state))
          /\ \A freq \in Keys :
                KeyDown(freq, FALSE, "running")
                    => /\ SetupFailed' /\ graphs' = graphs
                       /\ state'.frequency = freq
                       /\ state'.filterFrequency = state.filterFrequency
                       /\ state'.waveform = state.waveform
      ]_vars

(* A key press was refused: no graph, the error shown, the pitch recorded *)
C4_RefusedKeyPress ==
    /\ SetupFailed /\ state.error = SetupError
    /\ state.frequency = KeyPitches[1]
    /\ graphs = <<>> /\ calls = <<>>

(* C5: after a failed graph creation has set the error, a later play-button *)
(* click or key press for which graph creation succeeds ends with the error *)
(* cleared.                                                                 *)
C5_SuccessClearsError ==
    [][ (state.error # NoError /\ state.audioContext = Null) =>
          \A c \in ContextStates :
              /\ PlayClick(TRUE, c) => state'.error = NoError
              /\ \A freq \in Keys : KeyDown(freq, TRUE, c) => state'.error = NoError
      ]_vars

(* C6: the gain of every graph is set immediately exactly once, to 0, when  *)
(* the graph is created and before its oscillator is started; every other   *)
(* gain change is a setTargetAtTime with time constant 0.015 toward 0.5 or  *)
(* 0.                                                                       *)
C6_GainOnlyFades ==
    /\ \A g \in GraphIds :
          /\ graphs[g].gainSets = <<0>>
          /\ graphs[g].gainFadeTarget \in {NoFade, 0, FadeTarget}
          /\ graphs[g].gainFadeTarget # NoFade => graphs[g].gainFadeTC = TimeConstant
    /\ \A i \in DOMAIN calls :
          /\ calls[i].op = "gain.gain.setValueAtTime" =>
                /\ calls[i].val = 0
                /\ \E j \in DOMAIN calls :
                      j > i /\ calls[j].op = "osc.start" /\ calls[j].id = calls[i].id
                /\ \A j \in 1..(i - 1) :
                      calls[j].id = calls[i].id =>
                          calls[j].op \notin {"osc.start", "gain.gain.setTargetAtTime",
                                              "gain.gain.setValueAtTime"}
          /\ calls[i].op = "gain.gain.setTargetAtTime" =>
                /\ calls[i].tc = TimeConstant
                /\ calls[i].val \in {0, FadeTarget}

(* A graph was started and then stopped: its last gain change is a fade to 0 *)
C6_FadedOut ==
    /\ CompleteGraph /\ ~state.isPlaying
    /\ graphs[state.gainNode].gainFadeTarget = 0
    /\ Fades # {}

C8_ClickTogglesAndFades ==
    [][ /\ (state.audioContext # Null /\ PlayClick(TRUE, "running")) =>
              /\ state'.isPlaying = ~state.isPlaying
              /\ LET fade == Call("gain.gain.setTargetAtTime", state.gainNode,
                                  IF state'.isPlaying THEN FadeTarget ELSE 0,
                                  TimeConstant)
                     resume == Call("context.resume", state.audioContext, 0, 0)
                 IN  IF graphs[state.audioContext].ctxState = "suspended"
                     THEN /\ calls' = <<resume, fade>>
                          /\ graphs'[state.audioContext].ctxState = "running"
                     ELSE calls' = <<fade>>
        /\ state'.audioContext # Null =>
              (state'.isPlaying <=> graphs'[state'.gainNode].gainFadeTarget = FadeTarget)
      ]_vars

(* A click has resumed a suspended context and started the fade in *)
C8_ResumedAndFadedIn ==
    /\ state.isPlaying
    /\ Len(calls) = 2
    /\ calls[1].op = "context.resume"
    /\ calls[2] = Call("gain.gain.setTargetAtTime", state.gainNode, FadeTarget, TimeConstant)

(* Some knob is being dragged, so that a mousemove emits a value *)
Dragging == \E k \in KnobIds : knobs[k].isDragging

C10_TeardownReleasesEverything ==
    ~mounted =>
        \A g \in GraphIds :
            /\ graphs[g].closeCalls = 1 /\ graphs[g].ctxState = "closed"
            /\ graphs[g].oscStops = graphs[g].oscStarts
            /\ graphs[g].oscDisconnects >= 1

(* The calls that release audio resources *)
ReleaseOps ==
    {"osc.stop", "osc.disconnect", "gain.disconnect", "filter.disconnect", "context.close"}

(* C11: discarding a controller for which no graph was ever created, also   *)
(* after knob drags, waveform selections or refused creations, makes no     *)
(* stop, disconnect or close call and raises no error: the discard leaves   *)
(* the state, its error field included, as it was.                          *)
C11_DiscardWithoutGraph ==
    [][ (graphs = <<>> /\ Unmount) =>
            /\ \A i \in DOMAIN calls' : calls'[i].op \notin ReleaseOps
            /\ graphs' = <<>>
            /\ state' = state
      ]_vars

(* A controller was discarded after a refused creation, a waveform          *)
(* selection and a knob drag, with no graph ever created                    *)
C11_DiscardedUnused ==
    /\ ~mounted /\ graphs = <<>> /\ calls = <<>>
    /\ state.error = SetupError
    /\ state.waveform # initialState.waveform
    /\ state.filterFrequency # InitialFilterFrequency

(* The raw delta of an angleDiff call, in degrees *)
RawDelta == probe.currentAngle - probe.startAngle

(* C12: for every raw angular delta d in [-360, 360] degrees that a move    *)
(* can produce, the normalized delta lies in the half-open interval         *)
(* (-180, 180] and is congruent to d modulo 360, and a delta already in     *)
(* (-180, 180] is unchanged.                                                *)
C12_DeltaNormalized ==
    (probe.fn = "angleDiff" /\ probe.returned) =>
        /\ Deg(-180) < probe.result /\ probe.result <= Deg(180)
        /\ (probe.result - Deg(RawDelta)) % Deg(360) = 0
        /\ (-180 < RawDelta /\ RawDelta <= 180) => probe.result = Deg(RawDelta)

(* C13: for each knob's min < max and every angle a, angleToValue(a) is min *)
(* when a <= -135 and max when a >= 135, and for a within [-135, 135] it is *)
(* the linear interpolation min + ((a + 135) / 270) * (max - min); the      *)
(* result is always within [min, max].                                      *)
C13_AngleToValueSaturates ==
    (probe.fn = "angleToValue" /\ probe.returned) =>
        LET k == probe.knob
            a == probe.angle
            v == probe.result
        IN  /\ KnobMin(k) < KnobMax(k)
            /\ UnitsPerValue(k) * (KnobMax(k) - KnobMin(k)) = Deg(SweepDegrees)
            /\ a <= Deg(-135) => v = KnobMin(k)
            /\ a >= Deg(135) => v = KnobMax(k)
            /\ (Deg(-135) <= a /\ a <= Deg(135)) =>
                    (v - KnobMin(k)) * UnitsPerValue(k) = a + Deg(135)
            /\ KnobMin(k) <= v /\ v <= KnobMax(k)

(* angleToValue has returned the maximum for an angle past the upper end of *)
(* the sweep                                                                *)
C13_SaturatedAbove ==
    /\ probe.fn = "angleToValue" /\ probe.returned
    /\ probe.angle > Deg(SweepEnd)
    /\ probe.result = KnobMax(probe.knob)

(* valueToAngle of min, of max and of the midpoint is -135, 135 and 0 *)
FixedAngles ==
    (probe.fn = "valueToAngle" /\ probe.returned) =>
        /\ probe.value = KnobMin(probe.knob) => probe.result = DInt(SweepStart)
        /\ probe.value = KnobMax(probe.knob) => probe.result = DInt(SweepEnd)
        /\ 2 * probe.value = KnobMin(probe.knob) + KnobMax(probe.knob)
                => probe.result = DoubleZero

(* C14: for each knob and every value v in [min, max],                      *)
(* angleToValue(valueToAngle(v)) = v, with valueToAngle(min) = -135,        *)
(* valueToAngle(max) = 135 and valueToAngle of the midpoint = 0.            *)
C14_RoundTripExact ==
    /\ FixedAngles
    /\ probe.fn = "roundTrip" => probe.result = DHundredths(probe.value)

(* C14 as amended: angleToValue(valueToAngle(v)) differs from v by at most  *)
(* (max - min) * 2^-50, the rounding of the double arithmetic, and is v     *)
(* exactly for v = min, v = max and the midpoint; valueToAngle(min) = -135, *)
(* valueToAngle(max) = 135 and valueToAngle of the midpoint = 0 exactly.    *)
C14_RoundTripWithinRounding ==
    /\ FixedAngles
    /\ probe.fn = "roundTrip" =>
          LET v == DHundredths(probe.value)
              k == probe.knob
              tolerance == DScale(DSub(MaxDouble(k), MinDouble(k)), -50)
          IN  /\ ~DLess(tolerance, DAbs(DSub(probe.result, v)))
              /\ (probe.value \in {KnobMin(k), KnobMax(k)}
                    \/ 2 * probe.value = KnobMin(k) + KnobMax(k)) => probe.result = v

(* The round trip of 440 Hz through the frequency knob has returned a       *)
(* neighbouring double                                                      *)
C14_RoundedRoundTrip ==
    /\ probe.fn = "roundTrip" /\ probe.knob = "FREQUENCY"
    /\ probe.value = InitialFrequency
    /\ probe.result # DHundredths(probe.value)
    /\ DLess(DHundredths(probe.value), probe.result)

(* C15: after every pointer event, mid-drag and after a drag past either    *)
(* end of the sweep included, the indicator of each knob is rotated to      *)
(* valueToAngle(current value), which lies in [-135, 135].                  *)
C15_IndicatorFollowsValue ==
    \A k \in KnobIds :
        /\ knobs[k].rotation = valueToAngle(k, KnobValue(state, k))
        /\ Deg(SweepStart) <= knobs[k].rotation
        /\ knobs[k].rotation <= Deg(SweepEnd)

(* C16: the document's move and up listeners of each knob are registered    *)
(* exactly while the knob is being dragged: none while it is idle, and none *)
(* after the component is torn down.                                        *)
C16_ListenersOnlyWhileDragging ==
    \A k \in KnobIds :
        /\ mounted => (knobs[k].listening <=> knobs[k].isDragging)
        /\ ~mounted => ~knobs[k].listening

(* The delta d, in angle units and within [-360, 360] degrees, brought into *)
(* the half-open interval (-180, 180]                                       *)
NormalizedDelta(d) ==
    IF d > Deg(180) THEN d - Deg(360)
    ELSE IF d <= Deg(-180) THEN d + Deg(360)
    ELSE d

(* The value a move to pointer angle `angle` is to emit for knob k *)
AnchoredValue(k, angle) ==
    angleToValue(k, valueToAngle(k, knobs[k].startValue)
                        + NormalizedDelta(Deg(angle - knobs[k].startAngle)))

(* The calls of this step that hand knob k's value to the graph *)
ValueCalls(k) ==
    {i \in DOMAIN calls' :
        calls'[i].op = IF k = "FREQUENCY" THEN "osc.frequency.setValueAtTime"
                                          ELSE "filter.frequency.setValueAtTime"}

(* C17: a pointer-down captures the knob's value and the pointer's angle as *)
(* the anchor; a move emits nothing for an idle knob and, for a knob being  *)
(* dragged, exactly one value, angleToValue(valueToAngle(anchorValue) +     *)
(* normalized delta from the anchor angle); a pointer-up makes every knob   *)
(* idle and emits nothing.                                                  *)
C17_MoveEmitsAnchoredValue ==
    [][ /\ \A k \in KnobIds, angle \in PointerAngles :
              KnobMouseDown(k, "measured", angle) =>
                  /\ knobs'[k].isDragging
                  /\ knobs'[k].startValue = KnobValue(state, k)
                  /\ knobs'[k].startAngle = angle
                  /\ state' = state /\ calls' = <<>>
        /\ \A angleF \in MoveAngles("FREQUENCY"), angleC \in MoveAngles("FILTER") :
              MouseMove(angleF, angleC) =>
                  \A k \in KnobIds :
                      LET v == AnchoredValue(k, IF k = "FREQUENCY" THEN angleF ELSE angleC)
                      IN  IF knobs[k].isDragging
                          THEN /\ KnobValue(state', k) = v
                               /\ CompleteGraph =>
                                      /\ Cardinality(ValueCalls(k)) = 1
                                      /\ \A i \in ValueCalls(k) : calls'[i].val = v
                          ELSE /\ KnobValue(state', k) = KnobValue(state, k)
                               /\ ValueCalls(k) = {}
        /\ MouseUp =>
              /\ \A k \in KnobIds : ~knobs'[k].isDragging
              /\ state' = state /\ calls' = <<>>
      ]_vars

(* C18: a pointer-down on a knob whose bounding box is empty is ignored:    *)
(* the knob stays idle, no anchor is captured, nothing is emitted and no    *)
(* error is recorded.                                                       *)
C18_UnmeasurablePointerDownIgnored ==
    [][ \A k \in KnobIds, angle \in PointerAngles :
            KnobMouseDown(k, "zeroSize", angle) =>
                /\ knobs'[k] = knobs[k]
                /\ state' = state /\ calls' = <<>>
      ]_vars

(* C19: in every state isPlaying implies that a complete graph is recorded  *)
(* (context, oscillator, gain node and filter node all non-null), and the   *)
(* four graph references are all null or all non-null.                      *)
C19_PlayingImpliesCompleteGraph ==
    /\ state.isPlaying => CompleteGraph
    /\ NoGraph \/ CompleteGraph

(* The synthesizer is playing, after a creation had been refused and the    *)
(* gesture retried                                                          *)
C19_PlayingAfterRetry ==
    /\ state.isPlaying /\ CompleteGraph
    /\ state.error = SetupError
    /\ graphs[state.gainNode].gainFadeTarget = FadeTarget

(* C20: a play-button click made while no graph exists only attempts the    *)
(* creation of one: isPlaying stays false, no gain fade is scheduled and no *)
(* context is resumed; a click that starts playback is made while a graph   *)
(* exists.  (Stated in the contrapositive: a step from a state with no      *)
(* graph that ends otherwise is not a play-button click.)                   *)
C20_FirstClickOnlyCreates ==
    [][ /\ state.audioContext = Null =>
              \A h \in HostAnswers :
                  LET OnlyCreates ==
                          /\ ~state'.isPlaying
                          /\ \A i \in DOMAIN calls' :
                                calls'[i].op \notin {"gain.gain.setTargetAtTime",
                                                     "context.resume"}
                          /\ \A n \in DOMAIN graphs' :
                                n \notin DOMAIN graphs =>
                                    /\ graphs'[n].gainFadeTarget = NoFade
                                    /\ graphs'[n].ctxState = h[2]
                          /\ Len(graphs') = Len(graphs) + (IF h[1] THEN 1 ELSE 0)
                  IN  ~OnlyCreates => ~PlayClick(h[1], h[2])
        /\ (~state.isPlaying /\ state'.isPlaying /\ ~CompleteGraph) =>
              \A h \in HostAnswers : ~PlayClick(h[1], h[2])
      ]_vars

(* A first click has created a graph, in a suspended context, and nothing   *)
(* plays                                                                    *)
C20_CreatedSilentAndSuspended ==
    /\ Len(graphs) = 1 /\ CompleteGraph
    /\ calls = NewGraphCalls(1, state)
    /\ ~state.isPlaying
    /\ graphs[1].ctxState = "suspended"
    /\ graphs[1].gainFadeTarget = NoFade

====
